---- MODULE Spec2Model ----
(***************************************************************************)
(* The pricing / stock / status cascade of backend/products/models.py:     *)
(* ProductComponent, ProductComposition and Product rows, the order items  *)
(* that depend on a product, and the pre_save / post_save / post_delete    *)
(* receivers that keep them in step.                                       *)
(*                                                                         *)
(* Money is counted in hundredths of the currency unit (a DecimalField     *)
(* with decimal_places=2 holds whole hundredths).                          *)
(***************************************************************************)
EXTENDS Integers, FiniteSets, Sequences, TLC

\* ---------------------------------------------------------------- bounds
\* quantity_in_stock grows by new_arrival on every save; saves that would
\* take it above MaxStock are not explored.
MaxStock == 1

RequestIds == {1, 2}
RoundingModes == {"ROUND_HALF_EVEN", "ROUND_HALF_UP"}

\* ------------------------------------------------------- Product.STATUS_*
STATUS_REVIEW == 1
STATUS_AVAILABLE == 2
STATUS_ONLY_ORDER == 3
STATUS_UNAVAILABLE == 4

Statuses == {STATUS_REVIEW, STATUS_AVAILABLE, STATUS_ONLY_ORDER, STATUS_UNAVAILABLE}

\* Product.STATUS_CHOICES, the (value, label) pairs in the order declared;
\* the labels are given in English.  The last pair carries STATUS_AVAILABLE.
STATUS_CHOICES ==
    << [value |-> STATUS_REVIEW, label |-> "Under review"],
       [value |-> STATUS_AVAILABLE, label |-> "Available"],
       [value |-> STATUS_ONLY_ORDER, label |-> "Only to order"],
       [value |-> STATUS_AVAILABLE, label |-> "Unavailable"] >>

VARIABLES
    components,     \* table of ProductComponent rows, by id
    products,       \* table of Product rows, by id
    compositions,   \* table of ProductComposition rows, by id
    orderitems,     \* table of OrderItem rows, by id
    rounding,       \* how the database rounds a DecimalField(decimal_places=2)
    requests,       \* in-flight requests holding a ProductComponent instance
    last            \* the operation that settled last (history)

vars == <<components, products, compositions, orderitems, rounding, requests, last>>

\* ------------------------------------------------------------- the tables
Put(table, id, row) ==
    [i \in (DOMAIN table) \cup {id} |-> IF i = id THEN row ELSE table[i]]

Remove(table, id) ==
    [i \in (DOMAIN table) \ {id} |-> table[i]]

EmptyTable == [i \in {} |-> 0]

PyBool(b) == IF b THEN "True" ELSE "False"

\* product.productcomposition_set.all()
product_productcomposition_set(cs, p) ==
    {c \in DOMAIN cs : cs[c].product = p}

\* component.productcomposition_set.all()
component_productcomposition_set(cs, k) ==
    {c \in DOMAIN cs : cs[c].component = k}

\* ------------------------------------------------------ ProductComponent
\* add_new_arrival that leaves new_arrival as it was
add_new_arrival_kept(inst) ==
    [inst EXCEPT !.quantity_in_stock = inst.quantity_in_stock + inst.new_arrival]

\* add_new_arrival: quantity_in_stock += new_arrival; new_arrival = 0
add_new_arrival(inst) ==
    [inst EXCEPT !.quantity_in_stock = inst.quantity_in_stock + inst.new_arrival,
                 !.new_arrival = 0]

\* pre_save receiver of ProductComponent
recalculate_quantity_in_stock_before_save(inst) ==
    add_new_arrival(inst)

\* ---------------------------------------------------- ProductComposition
get_composition_price(cs, ks, c) ==
    cs[c].quantity * ks[cs[c].component].price

\* ----------------------------------------------------------------- Product
RECURSIVE SumPrices(_, _, _)
SumPrices(S, cs, ks) ==
    IF S = {} THEN 0
    ELSE LET c == CHOOSE x \in S : TRUE
         IN  get_composition_price(cs, ks, c) + SumPrices(S \ {c}, cs, ks)

get_price(cs, ks, p) ==
    SumPrices(product_productcomposition_set(cs, p), cs, ks)

\* get_new_price with the discount added instead of taken off
get_new_price_added(row) ==
    row.price * (100 + row.discount)

\* (price / 100) * (100 - discount), exact, in ten-thousandths of the unit
get_new_price(row) ==
    row.price * (100 - row.discount)

\* What a DecimalField(max_digits=10, decimal_places=2) column keeps of an
\* exact value x given in ten-thousandths: x / 100 rounded to a whole
\* hundredth, ties by the database's rounding mode.
DecimalField(x, mode) ==
    LET q == x \div 100
        r == x % 100
    IN  IF r < 50 THEN q
        ELSE IF r > 50 THEN q + 1
        ELSE IF mode = "ROUND_HALF_EVEN"
             THEN (IF q % 2 = 0 THEN q ELSE q + 1)
             ELSE (IF x >= 0 THEN q + 1 ELSE q)

SetMin(S) == CHOOSE m \in S : \A x \in S : m <= x

SetMax(S) == CHOOSE m \in S : \A x \in S : m >= x

\* get_available_quantity_of_products taking the largest quotient
get_available_quantity_max(cs, ks, p) ==
    LET number_of_composition_available ==
            {ks[cs[c].component].quantity_in_stock \div cs[c].quantity :
                c \in {x \in product_productcomposition_set(cs, p) : cs[x].quantity > 0}}
    IN  IF number_of_composition_available # {}
        THEN SetMax(number_of_composition_available)
        ELSE 0

get_available_quantity_of_products(cs, ks, p) ==
    LET number_of_composition_available ==
            {ks[cs[c].component].quantity_in_stock \div cs[c].quantity :
                c \in {x \in product_productcomposition_set(cs, p) : cs[x].quantity > 0}}
    IN  IF number_of_composition_available # {}
        THEN SetMin(number_of_composition_available)
        ELSE 0

get_status(cs, ks, p) ==
    IF get_available_quantity_of_products(cs, ks, p) > 0
    THEN STATUS_AVAILABLE
    ELSE STATUS_ONLY_ORDER

\* The loop returns in its first iteration: the value is the availability of
\* the component of the row the query yields first, None for no rows.  The
\* query has no ordering (ProductComposition.Meta declares none), so any row
\* of the product may come first: the set of values the property can have.
get_productcomponent_status(cs, ks, p) ==
    IF product_productcomposition_set(cs, p) = {}
    THEN {"None"}
    ELSE {PyBool(ks[cs[c].component].available) :
            c \in product_productcomposition_set(cs, p)}

\* recalculate_new_price testing "not get_productcomponent_status" instead
\* of "is False": None forces the status too
recalculate_new_price_falsy(cs, ks, p, inst) ==
    {[inst EXCEPT !.status = IF s # "True" THEN STATUS_UNAVAILABLE ELSE @,
                  !.new_price = get_new_price(inst)] :
        s \in get_productcomponent_status(cs, ks, p)}

\* pre_save receiver of Product: the instances it can leave, new_price exact
recalculate_new_price(cs, ks, p, inst) ==
    {[inst EXCEPT !.status = IF s = "False" THEN STATUS_UNAVAILABLE ELSE @,
                  !.new_price = get_new_price(inst)] :
        s \in get_productcomponent_status(cs, ks, p)}

\* product.orderitem_set.all()
product_orderitem_set(items, p) ==
    {i \in DOMAIN items : items[i].product = p}

\* OrderItem.save(): the item takes again the price it caches from its
\* product, as stored
orderitem_save(prods, item) ==
    [item EXCEPT !.price = prods[item.product].new_price]

\* save_orderitem whose loop body never runs
save_orderitem_skipped(S, prods, items) ==
    {[items |-> items, raised |-> FALSE, calls |-> 0]}

\* save_orderitem: item.save() for each item of the product, in the order the
\* query yields them.  Nothing catches what item.save() raises: the loop ends
\* there, the items not reached are left as they were.  The outcomes: the
\* items table, whether an item.save() raised, the item.save() calls made.
RECURSIVE save_orderitem(_, _, _)
save_orderitem(S, prods, items) ==
    IF S = {} THEN {[items |-> items, raised |-> FALSE, calls |-> 0]}
    ELSE UNION {
            {[items |-> items, raised |-> TRUE, calls |-> 1]}
            \cup {[o EXCEPT !.calls = @ + 1] :
                     o \in save_orderitem(S \ {i}, prods,
                                          Put(items, i, orderitem_save(prods, items[i])))} :
            i \in S}

\* post_save receiver of Product, against the products as stored
save_orderitem_after_save(prods, items, p) ==
    save_orderitem(product_orderitem_set(items, p), prods, items)

\* Product.save(): pre_save, the row is written (new_price as the column
\* keeps it), post_save.  No transaction spans the three: the row stays
\* written whatever post_save raises.  The outcomes: the products and order
\* items tables, whether the save raised, the item.save() calls made.
product_save(cs, ks, prods, items, p, inst, mode) ==
    UNION {
        LET written == Put(prods, p,
                           [r EXCEPT !.new_price = DecimalField(r.new_price, mode)])
        IN  {[prods |-> written, items |-> o.items,
              raised |-> o.raised, calls |-> o.calls] :
                o \in save_orderitem_after_save(written, items, p)} :
        r \in recalculate_new_price(cs, ks, p, inst)}

\* save_product_after_save that leaves a STATUS_UNAVAILABLE product as it is
save_product_after_save_terminal(cs, ks, prods, items, p, mode) ==
    product_save(cs, ks, prods, items, p,
                 [prods[p] EXCEPT !.price = get_price(cs, ks, p),
                                  !.status = IF @ = STATUS_UNAVAILABLE THEN @
                                             ELSE get_status(cs, ks, p)],
                 mode)

\* post_save / post_delete receiver of ProductComposition, for the
\* composition's product p, against the rows as stored
save_product_after_save(cs, ks, prods, items, p, mode) ==
    product_save(cs, ks, prods, items, p,
                 [prods[p] EXCEPT !.price = get_price(cs, ks, p),
                                  !.status = get_status(cs, ks, p)],
                 mode)

\* save_related_productcompositions: composition.save() for each row of the
\* component, in the order the query yields them; a save that raises ends
\* the loop
RECURSIVE save_related_productcompositions(_, _, _, _, _, _)
save_related_productcompositions(S, cs, ks, prods, items, mode) ==
    IF S = {} THEN {[prods |-> prods, items |-> items, raised |-> FALSE, calls |-> 0]}
    ELSE UNION {
            UNION {IF o.raised THEN {o}
                   ELSE {[o2 EXCEPT !.calls = @ + o.calls] :
                            o2 \in save_related_productcompositions(
                                       S \ {c}, cs, ks, o.prods, o.items, mode)} :
                     o \in save_product_after_save(cs, ks, prods, items,
                                                   cs[c].product, mode)} :
            c \in S}

\* ------------------------------------------------------------------ history
\* The operation that settled last: its kind, the row it was issued on, for a
\* composition its product after the write (owner) and before it (prev, 0 for
\* none), whether it was refused, whether the instance carried exactly the
\* stored row (same), whether it carried a value the field declarations rule
\* out (invalid), for a component the quantity_in_stock and new_arrival
\* the instance carried, for a product the discount and status, for a
\* composition the component and quantity; whether the operation raised after
\* its row was written (raised) and the item.save() calls it made (calls);
\* whether it was issued on an instance that had no row (created); for a
\* component the products composed of it that were STATUS_UNAVAILABLE with
\* an unavailable component when the write was issued (was).
NoOp == [op |-> "none", id |-> 0, owner |-> 0, prev |-> 0, created |-> FALSE,
         was |-> {},
         rejected |-> FALSE, same |-> FALSE, invalid |-> FALSE,
         stock |-> 0, arrival |-> 0, discount |-> 0, status |-> 0,
         component |-> 0, quantity |-> 0, raised |-> FALSE, calls |-> 0]

NoRequest == [st |-> "idle", id |-> 0, price |-> 0, quantity_in_stock |-> 0,
              new_arrival |-> 0, available |-> FALSE]

\* ------------------------------------------------------------------- Init
Init ==
    /\ components = EmptyTable
    /\ products = EmptyTable
    /\ compositions = EmptyTable
    /\ orderitems = EmptyTable
    /\ rounding \in RoundingModes
    /\ requests = [r \in RequestIds |-> NoRequest]
    /\ last = NoOp

\* ------------------------------------------------------------ the writes

\* A foreign key that protects nothing
PROTECT_nothing(cs, k) == FALSE

\* ProductComposition.component, on_delete=PROTECT: a referenced component
\* cannot be deleted
PROTECT(cs, k) == component_productcomposition_set(cs, k) # {}

\* A PositiveSmallIntegerField column refuses a negative value
PositiveSmallIntegerField(v) == v >= 0

\* component_save that adds the arrival to the quantity_in_stock stored at
\* the time of the write instead of the one the instance carries
component_save_on_stored(k, inst0, op) ==
    LET inst == recalculate_quantity_in_stock_before_save(
                    IF k \in DOMAIN components
                    THEN [inst0 EXCEPT !.quantity_in_stock =
                                            components[k].quantity_in_stock]
                    ELSE inst0)
        ks == Put(components, k, inst)
        ok == PositiveSmallIntegerField(inst.quantity_in_stock)
              /\ PositiveSmallIntegerField(inst.new_arrival)
    IN  /\ IF ok
           THEN /\ components' = ks
                /\ \E o \in save_related_productcompositions(
                                component_productcomposition_set(compositions, k),
                                compositions, ks, products, orderitems, rounding) :
                    /\ products' = o.prods
                    /\ orderitems' = o.items
                    /\ last' = [op EXCEPT !.raised = o.raised, !.calls = o.calls]
           ELSE /\ UNCHANGED <<components, products, orderitems>>
                /\ last' = [op EXCEPT !.rejected = TRUE]
        /\ UNCHANGED compositions

\* ProductComponent.save() of instance inst0 as row k, recorded as op:
\* pre_save folds the arrival, the row is written unless a column refuses it,
\* post_save saves the related compositions.
component_save(k, inst0, op) ==
    LET inst == recalculate_quantity_in_stock_before_save(inst0)
        ks == Put(components, k, inst)
        ok == PositiveSmallIntegerField(inst.quantity_in_stock)
              /\ PositiveSmallIntegerField(inst.new_arrival)
    IN  /\ IF ok
           THEN /\ components' = ks
                /\ \E o \in save_related_productcompositions(
                                component_productcomposition_set(compositions, k),
                                compositions, ks, products, orderitems, rounding) :
                    /\ products' = o.prods
                    /\ orderitems' = o.items
                    /\ last' = [op EXCEPT !.raised = o.raised, !.calls = o.calls]
           ELSE /\ UNCHANGED <<components, products, orderitems>>
                /\ last' = [op EXCEPT !.rejected = TRUE]
        /\ UNCHANGED compositions

\* The products composed of component k that are STATUS_UNAVAILABLE and have
\* an unavailable component
UnavailableFor(k) ==
    {p \in {compositions[c].product :
                c \in component_productcomposition_set(compositions, k)} :
        /\ products[p].status = STATUS_UNAVAILABLE
        /\ \E c \in product_productcomposition_set(compositions, p) :
                ~components[compositions[c].component].available}

\* ---------------------------------------------------------------- actions

ComponentSave(k, price, stock, arrival, available) ==
    LET inst0 == [price |-> price, new_arrival |-> arrival,
                  quantity_in_stock |-> stock, available |-> available]
    IN  /\ stock + arrival <= MaxStock
        /\ component_save(k, inst0,
                [NoOp EXCEPT !.op = "ComponentSave", !.id = k,
                             !.invalid = (stock < 0 \/ arrival < 0),
                             !.stock = stock, !.arrival = arrival,
                             !.was = UnavailableFor(k),
                             !.same = (k \in DOMAIN components
                                       /\ components[k] = inst0)])
        /\ UNCHANGED <<rounding, requests>>

\* ProductComponent.delete(): refused (on_delete=PROTECT) while a composition
\* references the component
ComponentDelete(k) ==
    /\ k \in DOMAIN components
    /\ IF PROTECT(compositions, k)
       THEN /\ UNCHANGED components
            /\ last' = [NoOp EXCEPT !.op = "ComponentDelete", !.id = k,
                                    !.rejected = TRUE]
       ELSE /\ components' = Remove(components, k)
            /\ last' = [NoOp EXCEPT !.op = "ComponentDelete", !.id = k]
    /\ UNCHANGED <<products, compositions, orderitems, rounding, requests>>

\* Product.save() of an instance carrying these field values
ProductSave(p, price, discount, status) ==
    LET inst == [price |-> price, discount |-> discount,
                 new_price |-> IF p \in DOMAIN products
                               THEN products[p].new_price ELSE 0,
                 status |-> status]
        ok == PositiveSmallIntegerField(discount)
        op == [NoOp EXCEPT !.op = "ProductSave", !.id = p,
                           !.created = (p \notin DOMAIN products),
                           !.invalid = (discount < 0 \/ discount > 100),
                           !.discount = discount, !.status = status,
                           !.same = (p \in DOMAIN products
                                     /\ products[p].price = price
                                     /\ products[p].discount = discount
                                     /\ products[p].status = status)]
    IN  /\ IF ok
           THEN \E o \in product_save(compositions, components, products,
                                      orderitems, p, inst, rounding) :
                    /\ products' = o.prods
                    /\ orderitems' = o.items
                    /\ last' = [op EXCEPT !.raised = o.raised, !.calls = o.calls]
           ELSE /\ UNCHANGED <<products, orderitems>>
                /\ last' = [op EXCEPT !.rejected = TRUE]
        /\ UNCHANGED <<components, compositions, rounding, requests>>

\* A new Product: price 0 and status STATUS_REVIEW by default.  Its pre_save
\* receiver queries the compositions of an instance that has no row yet:
\* the query finds none, or, where the framework refuses a related manager
\* to an instance without a primary key (Django 4.1 on), raises before
\* anything is written.
ProductCreate(p, discount) ==
    /\ p \notin DOMAIN products
    /\ \/ ProductSave(p, 0, discount, STATUS_REVIEW)
       \/ /\ last' = [NoOp EXCEPT !.op = "ProductSave", !.id = p,
                                   !.created = TRUE, !.rejected = TRUE,
                                   !.invalid = (discount < 0 \/ discount > 100),
                                   !.discount = discount,
                                   !.status = STATUS_REVIEW]
          /\ UNCHANGED <<components, products, compositions, orderitems,
                         rounding, requests>>

\* An existing Product written with the price it was read with
ProductUpdate(p, discount, status) ==
    /\ p \in DOMAIN products
    /\ ProductSave(p, products[p].price, discount, status)

\* ProductComposition.save() of an instance carrying these field values
CompositionSave(c, p, k, quantity) ==
    LET row == [product |-> p, component |-> k, quantity |-> quantity]
        cs == Put(compositions, c, row)
        ok == PositiveSmallIntegerField(quantity)
        op == [NoOp EXCEPT !.op = "CompositionSave", !.id = c,
                           !.owner = p,
                           !.prev = IF c \in DOMAIN compositions
                                    THEN compositions[c].product ELSE 0,
                           !.invalid = (quantity < 0),
                           !.component = k, !.quantity = quantity,
                           !.same = (c \in DOMAIN compositions
                                     /\ compositions[c] = row)]
    IN  /\ p \in DOMAIN products
        /\ k \in DOMAIN components
        /\ IF ok
           THEN /\ compositions' = cs
                /\ \E o \in save_product_after_save(cs, components, products,
                                                    orderitems, p, rounding) :
                    /\ products' = o.prods
                    /\ orderitems' = o.items
                    /\ last' = [op EXCEPT !.raised = o.raised, !.calls = o.calls]
           ELSE /\ UNCHANGED <<compositions, products, orderitems>>
                /\ last' = [op EXCEPT !.rejected = TRUE]
        /\ UNCHANGED <<components, rounding, requests>>

\* ProductComposition.delete()
CompositionDelete(c) ==
    /\ c \in DOMAIN compositions
    /\ LET p == compositions[c].product
           cs == Remove(compositions, c)
       IN  /\ compositions' = cs
           /\ \E o \in save_product_after_save(cs, components, products,
                                               orderitems, p, rounding) :
                /\ products' = o.prods
                /\ orderitems' = o.items
                /\ last' = [NoOp EXCEPT !.op = "CompositionDelete", !.id = c,
                                        !.owner = p, !.prev = p,
                                        !.raised = o.raised, !.calls = o.calls]
    /\ UNCHANGED <<components, rounding, requests>>

\* The writes over given rows and field values
Workload(P, K, C, prices, stocks, arrivals, avails, discounts, statuses, quantities) ==
    \/ \E k \in K, price \in prices, stock \in stocks,
          arrival \in arrivals, available \in avails :
            ComponentSave(k, price, stock, arrival, available)
    \/ \E k \in K : ComponentDelete(k)
    \/ \E p \in P, discount \in discounts : ProductCreate(p, discount)
    \/ \E p \in P, discount \in discounts, status \in statuses :
            ProductUpdate(p, discount, status)
    \/ \E c \in C, p \in P, k \in K, quantity \in quantities :
            CompositionSave(c, p, k, quantity)
    \/ \E c \in C : CompositionDelete(c)

\* One product composed of up to two components; stock is set directly
\* (arrivals are written in SpecInvalid and SpecRace)
Next ==
    Workload({1}, {1, 2}, {1, 2}, {1}, 0..MaxStock, {0}, BOOLEAN,
             {0}, Statuses, {0, 1, 2})

Spec == Init /\ [][Next]_vars

\* Two products sharing one component, a composition moving between them
NextMove ==
    Workload({1, 2}, {1}, {1}, {1, 2}, {1}, {0}, {TRUE},
             {0}, {STATUS_REVIEW}, {0, 1, 2})

SpecMove == Init /\ [][NextMove]_vars

\* One product at several discounts
NextPrice ==
    Workload({1}, {1}, {1, 2}, {1, 50}, {1}, {0}, {TRUE},
             {0, 20, 50}, {STATUS_REVIEW}, {0, 1, 2})

SpecPrice == Init /\ [][NextPrice]_vars

\* Writes that may carry values the field declarations rule out
NextInvalid ==
    Workload({1}, {1}, {1}, {1}, {-1, 0, 1}, {-1, 0, 1}, {TRUE},
             {-1, 0, 150}, {STATUS_REVIEW}, {-1, 1})

SpecInvalid == Init /\ [][NextInvalid]_vars

\* ------------------------------------------------------------ order items
\* The order subsystem adds an item for product p: the item caches the price
\* of the product as stored.
OrderItemCreate(i, p) ==
    /\ i \notin DOMAIN orderitems
    /\ p \in DOMAIN products
    /\ orderitems' = Put(orderitems, i,
                         [product |-> p, price |-> products[p].new_price])
    /\ last' = [NoOp EXCEPT !.op = "OrderItemCreate", !.id = i]
    /\ UNCHANGED <<components, products, compositions, rounding, requests>>

OrderItemIds == {1, 2}

\* One product of one composition, with up to two order items depending on it
NextOrder ==
    \/ Workload({1}, {1}, {1}, {1, 2}, {1}, {0}, {TRUE},
                {0, 50}, {STATUS_REVIEW}, {0, 1})
    \/ \E i \in OrderItemIds, p \in {1} : OrderItemCreate(i, p)

SpecOrder == Init /\ [][NextOrder]_vars

\* ------------------------------------------------- concurrent requests
\* A request reads ProductComponent row k into an instance of its own and
\* sets the arrival it is to record.
ReqLoad(r, k, arrival) ==
    /\ requests[r].st = "idle"
    /\ k \in DOMAIN components
    /\ components[k].quantity_in_stock + arrival <= MaxStock
    /\ requests' = [requests EXCEPT ![r] =
                        [st |-> "loaded", id |-> k,
                         price |-> components[k].price,
                         quantity_in_stock |-> components[k].quantity_in_stock,
                         new_arrival |-> arrival,
                         available |-> components[k].available]]
    /\ last' = [NoOp EXCEPT !.op = "ReqLoad", !.id = k]
    /\ UNCHANGED <<components, products, compositions, orderitems, rounding>>

\* The request saves its instance: ProductComponent.save().  Nothing in the
\* save compares the row with what the request read.
ReqSave(r) ==
    LET q == requests[r]
        inst0 == [price |-> q.price, new_arrival |-> q.new_arrival,
                  quantity_in_stock |-> q.quantity_in_stock,
                  available |-> q.available]
    IN  /\ q.st = "loaded"
        /\ component_save(q.id, inst0,
                [NoOp EXCEPT !.op = "ComponentSave", !.id = q.id,
                             !.stock = q.quantity_in_stock,
                             !.arrival = q.new_arrival])
        /\ LET ok == ~last'.rejected
           IN  requests' = [x \in RequestIds |->
                              IF x = r
                              THEN [q EXCEPT !.st = IF ok THEN "saved" ELSE "refused"]
                              ELSE IF ok /\ requests[x].st = "saved"
                                         /\ requests[x].id = q.id
                                   THEN [requests[x] EXCEPT !.st = "overwritten"]
                                   ELSE requests[x]]
        /\ UNCHANGED rounding

\* The request ends
ReqDone(r) ==
    /\ requests[r].st \in {"saved", "overwritten", "refused"}
    /\ requests' = [requests EXCEPT ![r] = NoRequest]
    /\ last' = [NoOp EXCEPT !.op = "ReqDone"]
    /\ UNCHANGED <<components, products, compositions, orderitems, rounding>>

\* Components in stock, no products yet
InitRace ==
    /\ components \in [{1} -> [price : {1}, new_arrival : {0},
                               quantity_in_stock : 0..MaxStock,
                               available : BOOLEAN]]
    /\ products = EmptyTable
    /\ compositions = EmptyTable
    /\ orderitems = EmptyTable
    /\ rounding \in RoundingModes
    /\ requests = [r \in RequestIds |-> NoRequest]
    /\ last = NoOp

NextRace ==
    \/ \E r \in RequestIds, k \in {1}, arrival \in {0, 1} : ReqLoad(r, k, arrival)
    \/ \E r \in RequestIds : ReqSave(r)
    \/ \E r \in RequestIds : ReqDone(r)

SpecRace == InitRace /\ [][NextRace]_vars

\* ================================================================= claims

Abs(n) == IF n < 0 THEN -n ELSE n

CompositionWriteSettled ==
    last.op \in {"CompositionSave", "CompositionDelete"} /\ ~last.rejected

\* The products written by the operation that settled last
WrittenProducts ==
    IF last.rejected THEN {}
    ELSE IF last.op = "ProductSave" THEN {last.id}
    ELSE IF last.op \in {"CompositionSave", "CompositionDelete"} THEN {last.owner}
    ELSE IF last.op = "ComponentSave"
         THEN {compositions[c].product :
                 c \in component_productcomposition_set(compositions, last.id)}
    ELSE {}

ComponentsOf(p) ==
    {compositions[c].component : c \in product_productcomposition_set(compositions, p)}

AllAvailable(p) == \A k \in ComponentsOf(p) : components[k].available

\* C1 (as stated; SpecMove): once a composition write or delete has settled,
\* every product that owned or owns the composition has a base price equal to
\* the sum of quantity x component price over the compositions it owns now
\* (0 for none).
C1_BasePriceIsSumOfOwned ==
    CompositionWriteSettled =>
        \A p \in ({last.owner, last.prev} \cap DOMAIN products) :
            products[p].price = get_price(compositions, components, p)

\* C2 (as stated; SpecPrice): every stored product has
\* new_price = price x (100 - discount) / 100 exactly.
C2_ComputedPriceExact ==
    \A p \in DOMAIN products :
        100 * products[p].new_price = products[p].price * (100 - products[p].discount)

\* C2 (amended; SpecPrice): every stored product has new_price equal to
\* price x (100 - discount) / 100 rounded to the nearest hundredth: the two
\* differ by at most half a hundredth.
C2_ComputedPriceRounded ==
    \A p \in DOMAIN products :
        2 * Abs(100 * products[p].new_price
                - products[p].price * (100 - products[p].discount)) <= 100

\* C2 witness: a product write has settled on price 1.00, discount 20,
\* new_price 0.80.
C2_Witness ==
    \E p \in WrittenProducts :
        /\ products[p].price = 100
        /\ products[p].discount = 20
        /\ products[p].new_price = 80

\* C3 (as stated; Spec): after a product write settles, a product with an
\* unavailable component among its compositions has status STATUS_UNAVAILABLE.
C3_UnavailableComponentForcesUnavailable ==
    \A p \in WrittenProducts :
        ~AllAvailable(p) => products[p].status = STATUS_UNAVAILABLE

\* floor(stock / quantity) of each composition of p with a positive quantity
Floors(p) ==
    {components[compositions[c].component].quantity_in_stock
        \div compositions[c].quantity :
        c \in {x \in product_productcomposition_set(compositions, p) :
                 compositions[x].quantity > 0}}

\* C4 (Spec): after a composition write or delete settles for a product whose
\* composed components are all available, its status is STATUS_AVAILABLE
\* exactly when it has a composition of positive quantity and every such
\* composition has floor(stock / quantity) > 0, and STATUS_ONLY_ORDER otherwise.
C4_StatusFromStock ==
    CompositionWriteSettled =>
        LET p == last.owner
        IN  AllAvailable(p) =>
                products[p].status =
                    IF Floors(p) # {} /\ (\A f \in Floors(p) : f > 0)
                    THEN STATUS_AVAILABLE
                    ELSE STATUS_ONLY_ORDER

\* C4 witness: a composition write has settled for a product with available
\* components, one composition that stock covers and one that it does not;
\* the status is STATUS_ONLY_ORDER.
C4_Witness ==
    /\ CompositionWriteSettled
    /\ AllAvailable(last.owner)
    /\ \E c1, c2 \in product_productcomposition_set(compositions, last.owner) :
        /\ compositions[c1].quantity > 0
        /\ compositions[c2].quantity > 0
        /\ components[compositions[c1].component].quantity_in_stock
             \div compositions[c1].quantity > 0
        /\ components[compositions[c2].component].quantity_in_stock
             \div compositions[c2].quantity = 0
    /\ products[last.owner].status = STATUS_ONLY_ORDER

\* C5 (SpecInvalid): every stored component has new_arrival = 0 and a
\* quantity_in_stock that is not negative, and after a component write the
\* stored quantity_in_stock is the quantity_in_stock plus the new_arrival the
\* written instance carried.
C5_ArrivalFolded ==
    /\ \A k \in DOMAIN components :
        /\ components[k].new_arrival = 0
        /\ components[k].quantity_in_stock >= 0
    /\ (last.op = "ComponentSave" /\ ~last.rejected) =>
            components[last.id].quantity_in_stock = last.stock + last.arrival

\* C5 witness: a component write that carried an arrival has settled.
C5_Witness ==
    /\ last.op = "ComponentSave"
    /\ ~last.rejected
    /\ last.arrival > 0
    /\ components[last.id].quantity_in_stock = last.stock + last.arrival

\* The status section 3 of the specification derives for product p
DerivedStatus(p) ==
    IF ~AllAvailable(p) THEN STATUS_UNAVAILABLE
    ELSE IF Floors(p) # {} /\ (\A f \in Floors(p) : f > 0) THEN STATUS_AVAILABLE
    ELSE STATUS_ONLY_ORDER

\* C6 (as stated; Spec): after a component write has settled, every product
\* owning a composition that references the component has its price, new_price
\* and status derived from the rows as stored now.
C6_ComponentWriteReachesProducts ==
    (last.op = "ComponentSave" /\ ~last.rejected) =>
        \A p \in WrittenProducts :
            /\ products[p].price = get_price(compositions, components, p)
            /\ 2 * Abs(100 * products[p].new_price
                       - products[p].price * (100 - products[p].discount)) <= 100
            /\ products[p].status = DerivedStatus(p)

\* C7 (as stated; Spec): a write that carries exactly the stored row, issued
\* right after a write of the same kind on the same row, changes no product
\* and no component.
C7_RecomputeIdempotent ==
    [][(/\ last'.same
        /\ ~last'.rejected
        /\ ~last.rejected
        /\ last'.op = last.op
        /\ last'.id = last.id)
       => (products' = products /\ components' = components)]_vars

\* C8 (Spec): no composition references a component that does not exist, and
\* a delete of a component that a composition references is refused and
\* changes no component, composition or product.
C8_ReferencedComponentProtected ==
    /\ [](\A c \in DOMAIN compositions :
            compositions[c].component \in DOMAIN components)
    /\ [][\A k \in DOMAIN components :
            (/\ component_productcomposition_set(compositions, k) # {}
             /\ last'.op = "ComponentDelete"
             /\ last'.id = k)
            => (/\ last'.rejected
                /\ UNCHANGED <<components, compositions, products>>)]_vars

\* C8 witness: the delete of a referenced component has been refused and the
\* component and the composition referencing it are still stored.
C8_Witness ==
    /\ last.op = "ComponentDelete"
    /\ last.rejected
    /\ last.id \in DOMAIN components
    /\ component_productcomposition_set(compositions, last.id) # {}

\* C9 (as stated; SpecInvalid): a write carrying a negative quantity,
\* quantity_in_stock or new_arrival, or a discount outside 0..100, is refused
\* and changes no stored row.
C9_InvalidWriteRejected ==
    [][last'.invalid =>
        (last'.rejected /\ UNCHANGED <<components, compositions, products>>)]_vars

\* C10 (SpecRace): a request holding a read instance can always save it, and
\* the row a save leaves holds the quantity_in_stock the request read plus
\* its own new_arrival, whatever was stored in between.
C10_LastWriteWins ==
    \A r \in RequestIds :
        /\ requests[r].st = "loaded" => ENABLED ReqSave(r)
        /\ requests[r].st # "refused"
        /\ requests[r].st = "saved" =>
            components[requests[r].id].quantity_in_stock
                = requests[r].quantity_in_stock + requests[r].new_arrival

\* C10 witness: two requests read the same quantity_in_stock, both saved, and
\* the arrival of the one that saved first is not in the stored row.
C10_Witness ==
    \E r1, r2 \in RequestIds :
        /\ requests[r1].st = "overwritten"
        /\ requests[r2].st = "saved"
        /\ requests[r1].id = requests[r2].id
        /\ requests[r1].quantity_in_stock = requests[r2].quantity_in_stock
        /\ requests[r1].new_arrival > 0
        /\ components[requests[r2].id].quantity_in_stock
             = requests[r2].quantity_in_stock + requests[r2].new_arrival
        /\ components[requests[r2].id].quantity_in_stock
             < requests[r1].quantity_in_stock + requests[r1].new_arrival
                 + requests[r2].new_arrival

\* A write that reached a product row has settled
ProductWriteSettled ==
    /\ last.op \in {"ProductSave", "CompositionSave", "CompositionDelete",
                    "ComponentSave"}
    /\ ~last.rejected

\* Every order item of p caches the price of p as stored
Resynchronized(p) ==
    \A i \in product_orderitem_set(orderitems, p) :
        orderitems[i].price = products[p].new_price

DerivedStatuses == {STATUS_AVAILABLE, STATUS_ONLY_ORDER, STATUS_UNAVAILABLE}

\* C12 (Spec): a product created with the field defaults is stored with
\* status STATUS_REVIEW; after a direct product write the stored status is the
\* one the written instance carried or STATUS_UNAVAILABLE, and it differs from
\* the one carried only when a composed component is unavailable; after a
\* composition write or delete has settled, the status of the product the
\* composition names is STATUS_AVAILABLE, STATUS_ONLY_ORDER or
\* STATUS_UNAVAILABLE.
C12_StatusStateMachine ==
    /\ (last.op = "ProductSave" /\ ~last.rejected) =>
            /\ last.created => products[last.id].status = STATUS_REVIEW
            /\ products[last.id].status \in {last.status, STATUS_UNAVAILABLE}
            /\ products[last.id].status # last.status => ~AllAvailable(last.id)
    /\ CompositionWriteSettled =>
            /\ products[last.owner].status \in DerivedStatuses
            /\ products[last.owner].status # STATUS_REVIEW

\* C12 witness: a direct write that carried STATUS_REVIEW for a product whose
\* composed component is unavailable has settled with STATUS_UNAVAILABLE
\* stored.
C12_Witness ==
    /\ last.op = "ProductSave"
    /\ ~last.rejected
    /\ ~last.created
    /\ last.status = STATUS_REVIEW
    /\ product_productcomposition_set(compositions, last.id) # {}
    /\ products[last.id].status = STATUS_UNAVAILABLE

\* The status the stock gives product p: STATUS_AVAILABLE when it has a
\* composition of positive quantity and the stock covers every such
\* composition, STATUS_ONLY_ORDER otherwise
StockStatus(p) ==
    IF Floors(p) # {} /\ (\A f \in Floors(p) : f > 0)
    THEN STATUS_AVAILABLE
    ELSE STATUS_ONLY_ORDER

\* C13 (Spec): after a component write or a composition write or delete has
\* settled, every product it reached whose composed components are all
\* available now has the status the stock gives it, whatever status it had
\* before, STATUS_UNAVAILABLE for an unavailable component included.
C13_UnavailableNotTerminal ==
    (/\ last.op \in {"ComponentSave", "CompositionSave", "CompositionDelete"}
     /\ ~last.rejected
     /\ ~last.raised)
    => \A p \in WrittenProducts \cup last.was :
            (p \in WrittenProducts
             /\ (AllAvailable(p) => products[p].status = StockStatus(p)))

\* C13 witness: a component write has settled that made available the one
\* unavailable component of a product that was STATUS_UNAVAILABLE; the
\* product is STATUS_AVAILABLE now.
C13_Witness ==
    /\ last.op = "ComponentSave"
    /\ ~last.rejected
    /\ components[last.id].available
    /\ \E p \in last.was :
        /\ AllAvailable(p)
        /\ Cardinality(ComponentsOf(p)) = 2
        /\ products[p].status = STATUS_AVAILABLE

\* C14 (as stated; Spec): the status of every stored product is the value of
\* a pair of STATUS_CHOICES, and of one pair only: no two of the four
\* declared statuses share it.
C14_StatusIsDeclaredChoice ==
    \A p \in DOMAIN products :
        /\ \E i \in DOMAIN STATUS_CHOICES :
                STATUS_CHOICES[i].value = products[p].status
        /\ \A i, j \in DOMAIN STATUS_CHOICES :
                (/\ STATUS_CHOICES[i].value = products[p].status
                 /\ STATUS_CHOICES[j].value = products[p].status) => i = j

====
